---- MODULE Spec2Model ----
(***************************************************************************)
(* Connection lifecycle of dxcllistener: the channel based Listener        *)
(* (src/listener.rs) and the callback based Recorder (src/recorder.rs).    *)
(* One behaviour follows ONE supervisor object, chosen in Init by `kind`,  *)
(* its caller thread, its worker thread and the peer on the socket.        *)
(*                                                                         *)
(* Strings are sequences of one-character strings.  A worker iteration is  *)
(* split at the accesses to the shared atomic flag: the read on the socket *)
(* (RunRead), the load of the flag (RunCheck) and the `match state` block  *)
(* (RunHandle), so that request_stop() can fall between any two of them.   *)
(***************************************************************************)
EXTENDS Integers, Sequences, FiniteSets, TLC

VARIABLES
    kind,             \* "Listener" | "Recorder": which supervisor this run is about
    exists,           \* the supervisor object exists (Listener::new / record() Ok)
    run,              \* Listener.run / Recorder.run : Arc<AtomicBool>
    handle,           \* Option<JoinHandle>: TRUE = Some, FALSE = None
    startRet,         \* value returned by listen() / record(), "none" before
    joinRets,         \* values returned by the join() calls so far, in order
    callerPc,         \* "idle" | "joining" (blocked in h.join()) | "panicked"
    pc,               \* position of the worker thread
    state,            \* run(): state
    timeout_counter,  \* run(): timeout_counter
    line,             \* run(): line buffer
    ret,              \* run(): what the latest read_line returned, see RunRead
    res,              \* the thread's result, "none" while it runs
    written,          \* what the worker wrote to the socket, in order
    delivered,        \* spots handed to the sink (channel / callback), in order
    receiverAlive,    \* the mpsc::Receiver has not been dropped
    lines,            \* history: complete lines the running worker has read
    partials,         \* history: timed-out reads of it that carried data
    timeouts,         \* history: timed-out reads of it while authenticating
    received,         \* history: well-formed lines the peer sent after the login
    stopAt            \* history: where the worker was at the latest request_stop()

vars == << kind, exists, run, handle, startRet, joinRets, callerPc, pc, state,
           timeout_counter, line, ret, res, written, delivered, receiverAlive,
           lines, partials, timeouts, received, stopAt >>

callerVars == << exists, handle, startRet, joinRets, callerPc >>
hist == << lines, partials, timeouts, received >>
workerVars == << pc, state, timeout_counter, line, ret, res, written, delivered, hist >>

----------------------------------------------------------------------------
(* Bounds *)

\* reads that carry data, over the life of one worker
MaxReads == 4
\* while authenticating, the peer's data arrives before this many timeouts
MaxQuiet == 2
\* join() calls made by the caller
MaxJoins == 2

----------------------------------------------------------------------------
(* Text *)

CR == "\r"
LF == "\n"
BEL == "BEL"
SP == " "

AUTH_TOKEN ==
    << << "l", "o", "g", "i", "n", ":" >>,
       << "P", "l", "e", "a", "s", "e", " ", "e", "n", "t", "e", "r", " ",
          "y", "o", "u", "r", " ", "c", "a", "l", "l", ":" >> >>

\* the callsign the supervisor was built with
Callsign == << "N", "0", "C", "A", "L", "L" >>

\* two lines the external parser accepts, and one it rejects
SpotText == << "D", "X" >>
SpotText2 == << "D", "Y" >>
JunkText == << "x" >>

\* what the peer may put on the socket in one read: the body of a line
Bodies == { AUTH_TOKEN[1], SpotText, SpotText2, JunkText }

\* what a read that times out may have appended to the buffer
Partials == { << >>, AUTH_TOKEN[2], JunkText }

starts_with(s, p) == Len(p) <= Len(s) /\ SubSeq(s, 1, Len(p)) = p

ends_with(s, p) ==
    Len(p) <= Len(s) /\ SubSeq(s, Len(s) - Len(p) + 1, Len(s)) = p

\* is_auth_token as a test of the end of the buffer
is_auth_token_Suffix(token) ==
    \E i \in 1..Len(AUTH_TOKEN) : ends_with(token, AUTH_TOKEN[i])

is_auth_token(token) ==
    \E i \in 1..Len(AUTH_TOKEN) : starts_with(token, AUTH_TOKEN[i])

is_whitespace(c) == c \in { SP, CR, LF, "\t" }

RECURSIVE trim_end(_)
trim_end(s) ==
    IF s # << >> /\ is_whitespace(s[Len(s)])
    THEN trim_end(SubSeq(s, 1, Len(s) - 1))
    ELSE s

RECURSIVE trim_end_matches(_, _)
trim_end_matches(s, c) ==
    IF s # << >> /\ s[Len(s)] = c
    THEN trim_end_matches(SubSeq(s, 1, Len(s) - 1), c)
    ELSE s

clean_line(l) == trim_end_matches(trim_end(l), BEL)

\* dxclparser::parse(clean).is_ok()
parse_ok(clean) == clean \in { SpotText, SpotText2 }

\* send_format without the line terminator
send_format_NoCrLf(data) == data

\* format!("{}\r\n", data)
send_format(data) == data \o << CR, LF >>

----------------------------------------------------------------------------
(* Initial state: Listener::new(..) has run, or record(..) is still to be  *)
(* called.                                                                 *)

ListenerBudget == 20
RecorderBudget == 10

Init ==
    /\ kind \in { "Listener", "Recorder" }
    /\ exists = (kind = "Listener")
    /\ run = FALSE
    /\ handle = FALSE
    /\ startRet = "none"
    /\ joinRets = << >>
    /\ callerPc = "idle"
    /\ pc = "none"
    /\ state = "Auth"
    /\ timeout_counter = 0
    /\ line = << >>
    /\ ret = "none"
    /\ res = "none"
    /\ written = << >>
    /\ delivered = << >>
    /\ receiverAlive = TRUE
    /\ lines = 0
    /\ partials = 0
    /\ timeouts = 0
    /\ received = << >>
    /\ stopAt = "never"

----------------------------------------------------------------------------
(* The caller thread.  join() takes &mut self, so no other method of the   *)
(* same object runs while a join() is blocked: the caller is sequential.   *)
(* listen() is called for at most one successful start per instance (one   *)
(* connection per instance); a failed listen() may be repeated.            *)

\* Listener::is_running / Recorder::is_running
is_running == run

\* Listener::request_stop
ListenerRequestStop ==
    /\ kind = "Listener"
    /\ callerPc = "idle"
    /\ run' = FALSE
    /\ stopAt' = pc
    /\ UNCHANGED << kind, callerVars, workerVars, receiverAlive >>

\* Recorder::request_stop
RecorderRequestStop ==
    /\ kind = "Recorder"
    /\ exists
    /\ callerPc = "idle"
    /\ run' = FALSE
    /\ stopAt' = pc
    /\ UNCHANGED << kind, callerVars, workerVars, receiverAlive >>

\* Listener::listen.  outcome: what name resolution, connect_timeout and
\* thread::Builder::spawn do.
Listen(outcome) ==
    /\ kind = "Listener"
    /\ callerPc = "idle"
    /\ pc = "none"
    /\ run' = FALSE
    /\ IF outcome = "ok"
       THEN /\ handle' = TRUE
            /\ pc' = "spawned"
            /\ startRet' = "Ok"
       ELSE /\ startRet' = (IF outcome = "spawn_fail"
                            THEN "InternalError" ELSE "ConnectionError")
            /\ UNCHANGED << handle, pc >>
    /\ UNCHANGED << kind, exists, joinRets, callerPc, state, timeout_counter,
                    line, ret, res, written, delivered, receiverAlive, hist,
                    stopAt >>

\* recorder::record.  The connection is opened by the spawned thread.
Record(spawned) ==
    /\ kind = "Recorder"
    /\ ~exists
    /\ callerPc = "idle"
    /\ IF spawned
       THEN /\ exists' = TRUE
            /\ run' = TRUE
            /\ handle' = TRUE
            /\ pc' = "connect"
            /\ startRet' = "Ok"
       ELSE /\ startRet' = "InternalError"
            /\ UNCHANGED << exists, run, handle, pc >>
    /\ UNCHANGED << kind, joinRets, callerPc, state, timeout_counter, line,
                    ret, res, written, delivered, receiverAlive, hist,
                    stopAt >>

\* Listener::join, up to the blocking h.join(); called on a listener that
\* has been started
ListenerJoin ==
    /\ kind = "Listener"
    /\ startRet = "Ok"
    /\ callerPc = "idle"
    /\ Len(joinRets) < MaxJoins
    /\ IF handle
       THEN /\ handle' = FALSE
            /\ callerPc' = "joining"
            /\ UNCHANGED joinRets
       ELSE /\ joinRets' = Append(joinRets, "AlreadyJoined")
            /\ UNCHANGED << handle, callerPc >>
    /\ UNCHANGED << kind, exists, run, startRet, workerVars, receiverAlive,
                    stopAt >>

\* Recorder::join, up to the blocking join(): take().unwrap() panics on None
RecorderJoin ==
    /\ kind = "Recorder"
    /\ exists
    /\ callerPc = "idle"
    /\ Len(joinRets) < MaxJoins
    /\ IF handle
       THEN /\ handle' = FALSE
            /\ callerPc' = "joining"
            /\ UNCHANGED joinRets
       ELSE /\ joinRets' = Append(joinRets, "panic")
            /\ callerPc' = "panicked"
            /\ UNCHANGED handle
    /\ UNCHANGED << kind, exists, run, startRet, workerVars, receiverAlive,
                    stopAt >>

\* h.join().unwrap() returns once the thread has terminated
JoinReturn ==
    /\ callerPc = "joining"
    /\ pc = "done"
    /\ joinRets' = Append(joinRets, res)
    /\ callerPc' = "idle"
    /\ UNCHANGED << kind, exists, run, handle, startRet, workerVars,
                    receiverAlive, stopAt >>

\* the consumer drops the mpsc::Receiver.  Only pipe.send() looks at it, so
\* a drop before the worker streams is taken as one made when it starts to.
DropReceiver ==
    /\ kind = "Listener"
    /\ state = "Parse"
    /\ pc \in { "read", "check", "handle" }
    /\ receiverAlive
    /\ receiverAlive' = FALSE
    /\ UNCHANGED << kind, run, callerVars, workerVars, stopAt >>

----------------------------------------------------------------------------
(* The peer: a read carries data only within the bounds of the model.      *)

\* the text of buf after its last LF
RECURSIVE last_line(_)
last_line(buf) ==
    IF buf = << >> \/ buf[Len(buf)] = LF
    THEN << >>
    ELSE Append(last_line(SubSeq(buf, 1, Len(buf) - 1)), buf[Len(buf)])

\* history of the peer: buf is the buffer right after a complete line came
\* in, its last line is the line the peer sent; kept when it came after the
\* login and is a well-formed spot
SentAfterLogin(buf) ==
    LET sent == clean_line(last_line(SubSeq(buf, 1, Len(buf) - 1)))
    IN  IF state = "Parse" /\ parse_ok(sent)
        THEN Append(received, sent)
        ELSE received

\* the peer's alphabet: before the login one spot is enough (any line but a
\* prompt is dropped), after it a prompt is one more text the parser rejects
PeerLines ==
    IF state = "Auth" THEN Bodies \ { SpotText2 } ELSE Bodies \ { AUTH_TOKEN[1] }
PeerPartials ==
    IF state = "Auth" THEN Partials ELSE Partials \ { AUTH_TOKEN[2] }

PeerMaySend ==
    /\ lines + partials < MaxReads
    /\ state = "Auth" => timeouts < MaxQuiet

----------------------------------------------------------------------------
(* The Listener's worker thread (src/listener.rs)                          *)

\* ListenerThreadStart without the store of true
ListenerThreadStart_NoStore ==
    /\ kind = "Listener"
    /\ pc = "spawned"
    /\ pc' = "setup"
    /\ UNCHANGED << kind, run, callerVars, state, timeout_counter, line, ret,
                    res, written, delivered, receiverAlive, hist, stopAt >>

\* the thread closure of listen(): flag.store(true) before run()
ListenerThreadStart ==
    /\ kind = "Listener"
    /\ pc = "spawned"
    /\ run' = TRUE
    /\ pc' = "setup"
    /\ UNCHANGED << kind, callerVars, state, timeout_counter, line, ret, res,
                    written, delivered, receiverAlive, hist, stopAt >>

\* run(): set_read_timeout, try_clone (either may fail) and the locals
ListenerRunSetup(ok) ==
    /\ kind = "Listener"
    /\ pc = "setup"
    /\ IF ok
       THEN /\ timeout_counter' = ListenerBudget
            /\ state' = "Auth"
            /\ line' = << >>
            /\ pc' = "read"
            /\ UNCHANGED res
       ELSE /\ res' = "InternalError"
            /\ pc' = "exit"
            /\ UNCHANGED << timeout_counter, state, line >>
    /\ UNCHANGED << kind, run, callerVars, ret, written, delivered,
                    receiverAlive, hist, stopAt >>

\* ListenerReadResult with Ok(0) not told apart from an I/O error
ListenerReadResult_EofUnknown(outcome) ==
    CASE outcome \in { "eof", "error" } -> "UnknownError"
      [] OTHER -> "none"

\* run(): the first two arms of `match reader.read_line(&mut line)`: the
\* result the loop breaks with, "none" when it goes on to the third arm
ListenerReadResult(outcome) ==
    CASE outcome = "eof" -> "ConnectionLost"
      [] outcome = "error" -> "UnknownError"
      [] OTHER -> "none"

\* run(): reader.read_line(&mut line) and the match on its result.
\* outcome "ok": a complete line; "timeout": WouldBlock, the bytes read so
\* far stay in the buffer; "eof": Ok(0); "error": any other io::Error.
ListenerRunRead(outcome, data) ==
    /\ kind = "Listener"
    /\ pc = "read"
    /\ ret' = outcome
    /\ IF ListenerReadResult(outcome) # "none"
       THEN /\ data = << >>
            /\ res' = ListenerReadResult(outcome)
            /\ pc' = "exit"
            /\ UNCHANGED << line, hist >>
       ELSE /\ pc' = "check"
            /\ UNCHANGED res
            /\ IF outcome = "ok"
               THEN /\ data \in PeerLines
                    /\ PeerMaySend
                    /\ line' = line \o data \o << LF >>
                    /\ lines' = lines + 1
                    /\ received' = SentAfterLogin(line')
                    /\ UNCHANGED << partials, timeouts >>
               ELSE /\ data \in PeerPartials
                    /\ data # << >> => PeerMaySend
                    /\ line' = line \o data
                    /\ partials' = IF data = << >> THEN partials
                                                   ELSE partials + 1
                    /\ timeouts' = IF state = "Auth" THEN timeouts + 1
                                                     ELSE timeouts
                    /\ UNCHANGED << lines, received >>
    /\ UNCHANGED << kind, run, callerVars, state, timeout_counter, written,
                    delivered, receiverAlive, stopAt >>

\* ListenerRunCheck without the cancellation check
ListenerRunCheck_NoCheck ==
    /\ kind = "Listener"
    /\ pc = "check"
    /\ pc' = "handle"
    /\ UNCHANGED << kind, run, callerVars, state, timeout_counter, line, ret,
                    res, written, delivered, receiverAlive, hist, stopAt >>

\* run(): if !signal.load(..) { res = Ok(()); break; }
ListenerRunCheck ==
    /\ kind = "Listener"
    /\ pc = "check"
    /\ IF ~run
       THEN /\ res' = "Ok"
            /\ pc' = "exit"
       ELSE /\ pc' = "handle"
            /\ UNCHANGED res
    /\ UNCHANGED << kind, run, callerVars, state, timeout_counter, line, ret,
                    written, delivered, receiverAlive, hist, stopAt >>

\* ListenerHandleAuth with the counter set back by every complete line
ListenerHandleAuth_ResetOnLine(wrote) ==
    /\ UNCHANGED delivered
    /\ IF is_auth_token(line)
       THEN IF wrote
            THEN /\ written' = Append(written, send_format(Callsign))
                 /\ state' = "Parse"
                 /\ pc' = "read"
                 /\ UNCHANGED << res, timeout_counter, line >>
            ELSE /\ res' = "UnknownError"
                 /\ pc' = "exit"
                 /\ UNCHANGED << written, state, timeout_counter, line >>
       ELSE IF ret # "ok"
            THEN /\ timeout_counter' = timeout_counter - 1
                 /\ IF timeout_counter' = 0
                    THEN /\ res' = "AuthenticationError"
                         /\ pc' = "exit"
                    ELSE /\ pc' = "read"
                         /\ UNCHANGED res
                 /\ UNCHANGED << written, state, line >>
            ELSE /\ line' = << >>
                 /\ timeout_counter' = ListenerBudget
                 /\ pc' = "read"
                 /\ UNCHANGED << res, written, state >>

\* run(): the State::Auth arm.  wrote: whether send_line's write_all
\* succeeds.  A matched prompt stays in the buffer; the counter only falls.
ListenerHandleAuth(wrote) ==
    /\ UNCHANGED delivered
    /\ IF is_auth_token(line)
       THEN IF wrote
            THEN /\ written' = Append(written, send_format(Callsign))
                 /\ state' = "Parse"
                 /\ pc' = "read"
                 /\ UNCHANGED << res, timeout_counter, line >>
            ELSE /\ res' = "UnknownError"
                 /\ pc' = "exit"
                 /\ UNCHANGED << written, state, timeout_counter, line >>
       ELSE IF ret # "ok"
            THEN /\ timeout_counter' = timeout_counter - 1
                 /\ IF timeout_counter' = 0
                    THEN /\ res' = "AuthenticationError"
                         /\ pc' = "exit"
                    ELSE /\ pc' = "read"
                         /\ UNCHANGED res
                 /\ UNCHANGED << written, state, line >>
            ELSE /\ line' = << >>
                 /\ pc' = "read"
                 /\ UNCHANGED << res, written, state, timeout_counter >>

\* ListenerHandleParse with the new spot put in front of the ones sent
ListenerHandleParse_SendFirst ==
    /\ UNCHANGED << written, state, timeout_counter >>
    /\ IF ret = "ok"
       THEN IF parse_ok(clean_line(line))
            THEN IF receiverAlive
                 THEN /\ delivered' = << clean_line(line) >> \o delivered
                      /\ line' = << >>
                      /\ pc' = "read"
                      /\ UNCHANGED res
                 ELSE /\ res' = "ReceiverLost"
                      /\ pc' = "exit"
                      /\ UNCHANGED << delivered, line >>
            ELSE /\ line' = << >>
                 /\ pc' = "read"
                 /\ UNCHANGED << res, delivered >>
       ELSE /\ pc' = "read"
            /\ UNCHANGED << res, delivered, line >>

\* ListenerHandleParse with a parser error ending the worker
ListenerHandleParse_ParseErrFatal ==
    /\ UNCHANGED << written, state, timeout_counter >>
    /\ IF ret = "ok"
       THEN IF parse_ok(clean_line(line))
            THEN IF receiverAlive
                 THEN /\ delivered' = Append(delivered, clean_line(line))
                      /\ line' = << >>
                      /\ pc' = "read"
                      /\ UNCHANGED res
                 ELSE /\ res' = "ReceiverLost"
                      /\ pc' = "exit"
                      /\ UNCHANGED << delivered, line >>
            ELSE /\ res' = "UnknownError"
                 /\ pc' = "exit"
                 /\ UNCHANGED << delivered, line >>
       ELSE /\ pc' = "read"
            /\ UNCHANGED << res, delivered, line >>

\* ListenerHandleParse with the result of pipe.send ignored
ListenerHandleParse_SendErrIgnored ==
    /\ UNCHANGED << written, state, timeout_counter >>
    /\ IF ret = "ok"
       THEN IF parse_ok(clean_line(line))
            THEN IF receiverAlive
                 THEN /\ delivered' = Append(delivered, clean_line(line))
                      /\ line' = << >>
                      /\ pc' = "read"
                      /\ UNCHANGED res
                 ELSE /\ line' = << >>
                      /\ pc' = "read"
                      /\ UNCHANGED << res, delivered >>
            ELSE /\ line' = << >>
                 /\ pc' = "read"
                 /\ UNCHANGED << res, delivered >>
       ELSE /\ pc' = "read"
            /\ UNCHANGED << res, delivered, line >>

\* ListenerHandleParse with timeouts counted against the budget as in Auth
ListenerHandleParse_CountsTimeouts ==
    /\ UNCHANGED << written, state >>
    /\ IF ret = "ok"
       THEN /\ UNCHANGED timeout_counter
            /\ IF parse_ok(clean_line(line))
               THEN IF receiverAlive
                    THEN /\ delivered' = Append(delivered, clean_line(line))
                         /\ line' = << >>
                         /\ pc' = "read"
                         /\ UNCHANGED res
                    ELSE /\ res' = "ReceiverLost"
                         /\ pc' = "exit"
                         /\ UNCHANGED << delivered, line >>
               ELSE /\ line' = << >>
                    /\ pc' = "read"
                    /\ UNCHANGED << res, delivered >>
       ELSE /\ timeout_counter' = timeout_counter - 1
            /\ IF timeout_counter' = 0
               THEN /\ res' = "AuthenticationError"
                    /\ pc' = "exit"
               ELSE /\ pc' = "read"
                    /\ UNCHANGED res
            /\ UNCHANGED << delivered, line >>

\* run(): the State::Parse arm; pipe.send(spot) fails once the receiver is
\* dropped and `?` returns ReceiverLost
ListenerHandleParse ==
    /\ UNCHANGED << written, state, timeout_counter >>
    /\ IF ret = "ok"
       THEN IF parse_ok(clean_line(line))
            THEN IF receiverAlive
                 THEN /\ delivered' = Append(delivered, clean_line(line))
                      /\ line' = << >>
                      /\ pc' = "read"
                      /\ UNCHANGED res
                 ELSE /\ res' = "ReceiverLost"
                      /\ pc' = "exit"
                      /\ UNCHANGED << delivered, line >>
            ELSE /\ line' = << >>
                 /\ pc' = "read"
                 /\ UNCHANGED << res, delivered >>
       ELSE /\ pc' = "read"
            /\ UNCHANGED << res, delivered, line >>

\* run(): match state { Auth => .., Parse => .. }
ListenerRunHandle(wrote) ==
    /\ kind = "Listener"
    /\ pc = "handle"
    /\ IF state = "Auth"
       THEN ListenerHandleAuth(wrote)
       ELSE wrote /\ ListenerHandleParse
    /\ UNCHANGED << kind, run, callerVars, ret, receiverAlive, hist, stopAt >>

\* the thread closure of listen(): flag.store(false) after run(), then the
\* thread ends with res; run()'s locals are gone
ListenerThreadExit ==
    /\ kind = "Listener"
    /\ pc = "exit"
    /\ run' = FALSE
    /\ pc' = "done"
    /\ line' = << >>
    /\ lines' = 0
    /\ partials' = 0
    /\ timeouts' = 0
    /\ timeout_counter' = 0
    /\ UNCHANGED << kind, callerVars, state, ret, res, written,
                    delivered, receiverAlive, received, stopAt >>

----------------------------------------------------------------------------
(* The Recorder's worker thread (src/recorder.rs).  The closure returns    *)
(* what run() returns and never stores to the flag.                        *)

\* the thread closure of record(): TcpStream::connect(&constring)
RecorderThreadStart(connected) ==
    /\ kind = "Recorder"
    /\ pc = "connect"
    /\ IF connected
       THEN /\ pc' = "setup"
            /\ UNCHANGED res
       ELSE /\ res' = "ConnectionError"
            /\ pc' = "exit"
    /\ UNCHANGED << kind, run, callerVars, state, timeout_counter, line, ret,
                    written, delivered, receiverAlive, hist, stopAt >>

\* run(): set_read_timeout, try_clone (either may fail) and the locals
RecorderRunSetup(ok) ==
    /\ kind = "Recorder"
    /\ pc = "setup"
    /\ IF ok
       THEN /\ timeout_counter' = RecorderBudget
            /\ state' = "Auth"
            /\ line' = << >>
            /\ pc' = "read"
            /\ UNCHANGED res
       ELSE /\ res' = "InternalError"
            /\ pc' = "exit"
            /\ UNCHANGED << timeout_counter, state, line >>
    /\ UNCHANGED << kind, run, callerVars, ret, written, delivered,
                    receiverAlive, hist, stopAt >>

\* run(): the first two arms of `match reader.read_line(&mut line)`: the
\* result the loop breaks with, "none" when it goes on to the third arm
RecorderReadResult(outcome) ==
    CASE outcome = "eof" -> "ConnectionLost"
      [] outcome = "error" -> "UnknownError"
      [] OTHER -> "none"

\* run(): reader.read_line(&mut line) and the match on its result.
\* outcome "ok": a complete line; "timeout": WouldBlock, the bytes read so
\* far stay in the buffer; "eof": Ok(0); "error": any other io::Error.
RecorderRunRead(outcome, data) ==
    /\ kind = "Recorder"
    /\ pc = "read"
    /\ ret' = outcome
    /\ IF RecorderReadResult(outcome) # "none"
       THEN /\ data = << >>
            /\ res' = RecorderReadResult(outcome)
            /\ pc' = "exit"
            /\ UNCHANGED << line, hist >>
       ELSE /\ pc' = "check"
            /\ UNCHANGED res
            /\ IF outcome = "ok"
               THEN /\ data \in PeerLines
                    /\ PeerMaySend
                    /\ line' = line \o data \o << LF >>
                    /\ lines' = lines + 1
                    /\ received' = SentAfterLogin(line')
                    /\ UNCHANGED << partials, timeouts >>
               ELSE /\ data \in PeerPartials
                    /\ data # << >> => PeerMaySend
                    /\ line' = line \o data
                    /\ partials' = IF data = << >> THEN partials
                                                   ELSE partials + 1
                    /\ timeouts' = IF state = "Auth" THEN timeouts + 1
                                                     ELSE timeouts
                    /\ UNCHANGED << lines, received >>
    /\ UNCHANGED << kind, run, callerVars, state, timeout_counter, written,
                    delivered, receiverAlive, stopAt >>

\* run(): if !signal.load(..) { res = Ok(()); stream.shutdown(Both)?; break; }
RecorderRunCheck(shut) ==
    /\ kind = "Recorder"
    /\ pc = "check"
    /\ IF ~run
       THEN /\ res' = (IF shut THEN "Ok" ELSE "InternalError")
            /\ pc' = "exit"
       ELSE /\ pc' = "handle"
            /\ UNCHANGED res
    /\ UNCHANGED << kind, run, callerVars, state, timeout_counter, line, ret,
                    written, delivered, receiverAlive, hist, stopAt >>

\* send_line of recorder.rs: one stream.write; n is what it returns
\* (-1: Err, 0: Ok(0), otherwise the number of bytes the socket took)
RecorderWriteLens == { -1, 0, 1, Len(send_format(Callsign)) }

\* run(): the State::Auth arm.  n: what send_line's stream.write returns.
RecorderHandleAuth(n) ==
    /\ UNCHANGED delivered
    /\ IF is_auth_token(line)
       THEN IF n > 0
            THEN /\ written' = Append(written,
                                  SubSeq(send_format(Callsign), 1, n))
                 /\ state' = "Parse"
                 /\ pc' = "read"
                 /\ UNCHANGED << res, timeout_counter, line >>
            ELSE /\ res' = (IF n = 0 THEN "ConnectionLost"
                                     ELSE "UnknownError")
                 /\ pc' = "exit"
                 /\ UNCHANGED << written, state, timeout_counter, line >>
       ELSE IF ret # "ok"
            THEN /\ timeout_counter' = timeout_counter - 1
                 /\ IF timeout_counter' = 0
                    THEN /\ res' = "AuthenticationError"
                         /\ pc' = "exit"
                    ELSE /\ pc' = "read"
                         /\ UNCHANGED res
                 /\ UNCHANGED << written, state, line >>
            ELSE /\ line' = << >>
                 /\ pc' = "read"
                 /\ UNCHANGED << res, written, state, timeout_counter >>

\* run(): the State::Parse arm; callback(spot) returns nothing
RecorderHandleParse ==
    /\ UNCHANGED << written, state, timeout_counter, res >>
    /\ pc' = "read"
    /\ IF ret = "ok"
       THEN /\ line' = << >>
            /\ delivered' = IF parse_ok(clean_line(line))
                            THEN Append(delivered, clean_line(line))
                            ELSE delivered
       ELSE UNCHANGED << delivered, line >>

\* run(): match state { Auth => .., Parse => .. }
RecorderRunHandle(n) ==
    /\ kind = "Recorder"
    /\ pc = "handle"
    /\ IF state = "Auth"
       THEN RecorderHandleAuth(n)
       ELSE n = Len(send_format(Callsign)) /\ RecorderHandleParse
    /\ UNCHANGED << kind, run, callerVars, ret, receiverAlive, hist, stopAt >>

\* the thread closure of record() ends with what run() or connect returned;
\* run()'s locals are gone
RecorderThreadExit ==
    /\ kind = "Recorder"
    /\ pc = "exit"
    /\ pc' = "done"
    /\ line' = << >>
    /\ lines' = 0
    /\ partials' = 0
    /\ timeouts' = 0
    /\ timeout_counter' = 0
    /\ UNCHANGED << kind, run, callerVars, state, ret, res,
                    written, delivered, receiverAlive, received, stopAt >>

----------------------------------------------------------------------------

Outcomes == { "ok", "timeout", "eof", "error" }
ListenOutcomes == { "ok", "dns_fail", "refused", "spawn_fail" }

Next ==
    \/ ListenerRequestStop
    \/ RecorderRequestStop
    \/ \E o \in ListenOutcomes : Listen(o)
    \/ \E b \in BOOLEAN : Record(b)
    \/ ListenerJoin
    \/ RecorderJoin
    \/ JoinReturn
    \/ DropReceiver
    \/ ListenerThreadStart
    \/ \E b \in BOOLEAN : ListenerRunSetup(b)
    \/ \E o \in Outcomes, d \in Bodies \cup Partials : ListenerRunRead(o, d)
    \/ ListenerRunCheck
    \/ \E b \in BOOLEAN : ListenerRunHandle(b)
    \/ ListenerThreadExit
    \/ \E b \in BOOLEAN : RecorderThreadStart(b)
    \/ \E b \in BOOLEAN : RecorderRunSetup(b)
    \/ \E o \in Outcomes, d \in Bodies \cup Partials : RecorderRunRead(o, d)
    \/ \E b \in BOOLEAN : RecorderRunCheck(b)
    \/ \E n \in RecorderWriteLens : RecorderRunHandle(n)
    \/ RecorderThreadExit

Spec == Init /\ [][Next]_vars

\* a step of the worker thread; its position enables at most one of them
WorkerStep ==
    \/ ListenerThreadStart
    \/ \E b \in BOOLEAN : ListenerRunSetup(b)
    \/ \E o \in Outcomes, d \in Bodies \cup Partials : ListenerRunRead(o, d)
    \/ ListenerRunCheck
    \/ \E b \in BOOLEAN : ListenerRunHandle(b)
    \/ ListenerThreadExit
    \/ \E b \in BOOLEAN : RecorderThreadStart(b)
    \/ \E b \in BOOLEAN : RecorderRunSetup(b)
    \/ \E o \in Outcomes, d \in Bodies \cup Partials : RecorderRunRead(o, d)
    \/ \E b \in BOOLEAN : RecorderRunCheck(b)
    \/ \E n \in RecorderWriteLens : RecorderRunHandle(n)
    \/ RecorderThreadExit

\* Thread scheduling is fair, every bounded read returns, the sink's send
\* returns, and a blocked join() returns once the thread has ended.
Fairness == WF_vars(WorkerStep) /\ WF_vars(JoinReturn)

FairSpec == Spec /\ Fairness

----------------------------------------------------------------------------
(* The `match state` block on any buffer.  The peer decides what is in the *)
(* buffer when a read returns: here the worker stands at the block with a  *)
(* buffer drawn from text before, a prompt or a spot or nothing, and text  *)
(* after, over ordinary characters, space, CR, LF and bell.                *)

\* length of the text after the prompt or spot
MaxTail == 3

Chars == { "x", SP, CR, LF, BEL }
Tails == UNION { [1..n -> Chars] : n \in 0..MaxTail }
Heads == { << >>, JunkText }
Cores == { << >>, AUTH_TOKEN[1], AUTH_TOKEN[2], SpotText }

\* run(): the loop has read into the buffer and found the flag set; a
\* complete read returned at least one byte
TextInit ==
    /\ kind \in { "Listener", "Recorder" }
    /\ exists = TRUE
    /\ run = TRUE
    /\ handle = TRUE
    /\ startRet = "Ok"
    /\ joinRets = << >>
    /\ callerPc = "idle"
    /\ pc = "handle"
    /\ state \in { "Auth", "Parse" }
    /\ timeout_counter = (IF kind = "Listener" THEN ListenerBudget
                                               ELSE RecorderBudget)
    /\ \E h \in Heads, c \in Cores, t \in Tails : line = h \o c \o t
    /\ ret \in { "ok", "timeout" }
    /\ ret = "ok" => line # << >>
    /\ res = "none"
    /\ written = (IF state = "Auth" THEN << >>
                                    ELSE << send_format(Callsign) >>)
    /\ delivered = << >>
    /\ receiverAlive = TRUE
    /\ lines = (IF ret = "ok" THEN 1 ELSE 0)
    /\ partials = (IF ret = "ok" \/ line = << >> THEN 0 ELSE 1)
    /\ timeouts = 0
    /\ received = << >>
    /\ stopAt = "never"

\* run(): match state { Auth => .., Parse => .. }, of either kind
TextNext ==
    \/ \E b \in BOOLEAN : ListenerRunHandle(b)
    \/ \E n \in RecorderWriteLens : RecorderRunHandle(n)

TextSpec == TextInit /\ [][TextNext]_vars

----------------------------------------------------------------------------
(* Properties *)

\* the worker is inside its communication loop
LoopPcs == { "read", "check", "handle" }

\* the join() calls that returned the thread's result
JoinResults == { i \in 1..Len(joinRets) : joinRets[i] \notin { "AlreadyJoined", "panic" } }

\* C1: for Listener and Recorder, once a worker has been started, the first
\* join() returns the worker's terminal result and every later join()
\* returns AlreadyJoined; no join() panics.
C1_JoinTwice ==
    /\ callerPc # "panicked"
    /\ \A i \in 1..Len(joinRets) : joinRets[i] # "panic"
    /\ \A i \in JoinResults : joinRets[i] = res
    /\ \A i \in JoinResults : \A j \in (i + 1)..Len(joinRets) :
            joinRets[j] = "AlreadyJoined"

\* C2: for Listener, when request_stop() was called while the worker was in
\* its communication loop, the worker's terminal result is Ok(()), whatever
\* the next read yields.
C2_StopYieldsOk ==
    (kind = "Listener" /\ stopAt \in LoopPcs /\ res # "none") => res = "Ok"

\* the worker has stored true to the run flag and has not left run()
FlagSetPcs == { "setup" } \cup LoopPcs

\* C3: for Listener, when request_stop() is called after the worker has set
\* the run flag and while it is in run(), then (every read and every send
\* returning) the worker terminates, no join() stays blocked on it, and
\* is_running() is false from then on.
C3_StopTerminates ==
    (kind = "Listener" /\ stopAt \in FlagSetPcs)
        ~> [](pc = "done" /\ ~is_running /\ callerPc # "joining")

C3_Witness ==
    /\ kind = "Listener"
    /\ stopAt \in LoopPcs
    /\ state = "Parse"
    /\ pc = "done"
    /\ ~is_running
    /\ joinRets = << "Ok" >>


\* C4: for Listener, a request_stop() made before listen() is not ignored:
\* the worker of a following successful listen() forwards no spot.
C4_StopBeforeListen ==
    (kind = "Listener" /\ stopAt = "none" /\ startRet = "Ok")
        => delivered = << >>

\* C5: for Listener and Recorder, when the connection cannot be established
\* the start operation itself returns ConnectionError, no worker has been
\* spawned, no join handle is stored and is_running() is false.
C5_ConnectFailureSynchronous ==
    (startRet = "ConnectionError" \/ res = "ConnectionError")
        => /\ startRet = "ConnectionError"
           /\ pc = "none"
           /\ ~handle
           /\ ~is_running

\* C6: for Listener, from the return of a successful listen() until the
\* worker has exited or request_stop() is called, is_running() is true.
C6_RunningAfterListen ==
    (kind = "Listener" /\ startRet = "Ok" /\ stopAt = "never" /\ pc # "done")
        => is_running

\* C7: for Listener and Recorder, once the worker has exited, for whatever
\* reason, is_running() is false.
C7_StoppedAfterExit ==
    pc = "done" => ~is_running

\* C8: for Listener and Recorder, in the Auth and in the Parse state: when
\* a read returns zero bytes the worker terminates with ConnectionLost and
\* that is what join() returns.
C8_EofIsConnectionLost ==
    ret = "eof"
        => /\ pc \in { "exit", "done" }
           /\ res = "ConnectionLost"
           /\ \A i \in JoinResults : joinRets[i] = "ConnectionLost"

C8_Witness ==
    /\ kind = "Listener"
    /\ state = "Parse"
    /\ ret = "eof"
    /\ joinRets = << "ConnectionLost" >>

\* C9: for Listener and Recorder, when every read while authenticating
\* timed out, the worker ends with AuthenticationError after exactly 10
\* timeouts and has written nothing to the socket.
C9_AuthBudget ==
    (pc = "exit" /\ res = "AuthenticationError" /\ lines = 0)
        => (timeouts = 10 /\ written = << >>)

\* the buffer holds exactly one of the recognized prompts, as the start of
\* a line or as a whole line
ExactPrompts ==
    { AUTH_TOKEN[i] : i \in 1..Len(AUTH_TOKEN) }
        \cup { AUTH_TOKEN[i] \o << LF >> : i \in 1..Len(AUTH_TOKEN) }

\* C10: for Listener: an iteration that finds a recognized prompt while
\* authenticating writes callsign CR LF exactly once and moves to Parse
\* (or, the write failing, ends the worker with nothing written); over the
\* life of a worker there is at most one write, and Parse is never left.
C10_AuthOnce ==
    [][kind = "Listener" =>
        /\ (pc = "handle" /\ pc' # "handle" /\ state = "Auth"
                /\ line \in ExactPrompts)
              => \/ /\ written' = << Callsign \o << CR, LF >> >>
                    /\ state' = "Parse"
                    /\ pc' = "read"
                 \/ /\ written' = << >>
                    /\ res' = "UnknownError"
                    /\ pc' = "exit"
        /\ Len(written') <= 1
        /\ state = "Parse" => state' = "Parse"]_vars

C10_Witness ==
    /\ kind = "Listener"
    /\ state = "Parse"
    /\ pc = "read"
    /\ line = AUTH_TOKEN[2]
    /\ written = << Callsign \o << CR, LF >> >>

----------------------------------------------------------------------------
(* The Parse phase *)

\* the worker is about to hand clean_line(line) to the parser
AtParse == pc = "handle" /\ state = "Parse" /\ ret = "ok"

\* number of line ends in buf
RECURSIVE CountLF(_)
CountLF(buf) ==
    IF buf = << >>
    THEN 0
    ELSE CountLF(Tail(buf)) + (IF Head(buf) = LF THEN 1 ELSE 0)

\* C11: for Listener: every string handed to the parser is exactly one
\* received line, with no text of an earlier line and none of the login
\* prompt in it; and when the peer sent a prompt line, one well-formed spot
\* line and one more line and then closed, the callsign was written once,
\* exactly that spot was delivered and the result is ConnectionLost.
C11_OneLinePerParse ==
    kind = "Listener" =>
        /\ AtParse => (CountLF(line) = 1 /\ ~is_auth_token(line))
        /\ (pc = "exit" /\ ret = "eof" /\ state = "Parse" /\ receiverAlive
                /\ lines = 3 /\ partials = 0 /\ timeouts = 0
                /\ Len(received) = 1)
              => /\ Len(written) = 1
                 /\ delivered = received
                 /\ res = "ConnectionLost"

\* a is b with some of its elements left out
RECURSIVE IsSubseq(_, _)
IsSubseq(a, b) ==
    IF a = << >> THEN TRUE
    ELSE IF b = << >> THEN FALSE
    ELSE IF Head(a) = Head(b) THEN IsSubseq(Tail(a), Tail(b))
    ELSE IsSubseq(a, Tail(b))

\* C12: within one connection the spots delivered are a subsequence of the
\* well-formed lines received after the login: in the order received and
\* each received line at most once, whatever the interleaving of complete
\* lines and timeouts.
C12_DeliveredInOrder == IsSubseq(delivered, received)

C12_Witness ==
    /\ kind = "Listener"
    /\ Len(received) = 3
    /\ Len(delivered) = 2
    /\ delivered[1] # delivered[2]
    /\ ret = "timeout"
    /\ pc = "read"

\* C13: a line the parser rejects is never delivered and never ends the
\* worker: the step that handles it leaves the sink as it was, the worker in
\* Parse with no result and an empty buffer, back at the read; and the next
\* well-formed line that is read alone into that buffer is delivered.
C13_ParseErrorSkipped ==
    [][/\ (AtParse /\ ~parse_ok(clean_line(line)) /\ pc' # pc)
            => /\ delivered' = delivered
               /\ state' = "Parse"
               /\ res' = "none"
               /\ pc' = "read"
               /\ line' = << >>
       /\ (AtParse /\ parse_ok(clean_line(line)) /\ pc' # pc
                /\ (kind = "Listener" => receiverAlive))
            => /\ delivered' = Append(delivered, clean_line(line))
               /\ res' = "none"]_vars

\* a spot delivered after the first line of the Parse phase was rejected
C13_Witness ==
    /\ state = "Parse"
    /\ res = "none"
    /\ pc = "read"
    /\ lines = 3
    /\ received = << SpotText >>
    /\ delivered = << SpotText >>

\* C14: for Listener: with the receiver dropped, the step that tries to send
\* a spot ends the worker with ReceiverLost at once; from then on nothing is
\* read, written or delivered, the result stays, the first join() returns
\* ReceiverLost and is_running() is false once the worker has exited.
C14_ReceiverLost ==
    [][kind = "Listener" =>
        /\ (AtParse /\ parse_ok(clean_line(line)) /\ ~receiverAlive
                /\ pc' # pc)
              => /\ res' = "ReceiverLost"
                 /\ pc' = "exit"
        /\ res = "ReceiverLost"
              => /\ res' = res
                 /\ pc' \in { "exit", "done" }
                 /\ lines' <= lines /\ partials' <= partials
                 /\ written' = written
                 /\ delivered' = delivered
        /\ (res' = "ReceiverLost" /\ pc' = "done")
              => /\ ~is_running'
                 /\ joinRets' # << >> => joinRets'[1] = "ReceiverLost"]_vars

C14_Witness ==
    /\ kind = "Listener"
    /\ ~receiverAlive
    /\ res = "ReceiverLost"
    /\ pc = "done"
    /\ ~is_running
    /\ joinRets = << "ReceiverLost" >>

----------------------------------------------------------------------------
(* The run flag *)

\* C15: for Listener: the stop request is monotonic: once request_stop()
\* has been called after listen(), the run flag reads false in every later
\* state; no step of any thread puts it back to true.
C15_StopSticks ==
    (kind = "Listener" /\ stopAt \notin { "never", "none" }) => ~run

\* C16: for Listener: after listen() returned Ok the worker is the only
\* writer of the run state: request_stop() does not change what is_running()
\* returns, and is_running() is true in every state where the worker is
\* still in its loop, authenticating or streaming.
C16_WorkerOwnsRunState ==
    [][(kind = "Listener" /\ startRet = "Ok") =>
        /\ ListenerRequestStop => is_running' = is_running
        /\ pc' \in LoopPcs => is_running']_vars

----------------------------------------------------------------------------
(* The authentication budget *)

\* the value run() gives timeout_counter
Budget == IF kind = "Listener" THEN ListenerBudget ELSE RecorderBudget

\* C17, as claimed: the counter counts consecutive timeouts: when a complete
\* line that is no prompt has been read and handled while authenticating,
\* the counter is back at the full budget.
C17_ResetOnLine ==
    (pc = "read" /\ state = "Auth" /\ ret = "ok") => timeout_counter = Budget

\* C17, amended: the counter counts all timeouts of the authentication: it
\* is the budget less the timeouts handled so far, complete lines in
\* between or not (a complete line that is no prompt clears the buffer and
\* leaves the counter), and AuthenticationError comes with the budget-th
\* timeout of the authentication.
C17_CountsAllTimeouts ==
    /\ (pc \in LoopPcs /\ state = "Auth")
          => timeout_counter = Budget - timeouts
                + (IF pc \in { "check", "handle" } /\ ret = "timeout"
                   THEN 1 ELSE 0)
    /\ (pc = "exit" /\ res = "AuthenticationError")
          => (state = "Auth" /\ timeouts = Budget /\ timeout_counter = 0)

\* a complete line was handled after a timeout and the counter stays down
C17_Witness ==
    /\ pc = "read"
    /\ state = "Auth"
    /\ ret = "ok"
    /\ line = << >>
    /\ timeouts > 0
    /\ timeout_counter = Budget - timeouts

----------------------------------------------------------------------------
(* Terminal results *)

\* C18: for Listener: the result is Ok(()) only if a stop was requested:
\* while request_stop() has never been called, neither the worker's result
\* nor anything join() returned is Ok.
C18_OkOnlyAfterStop ==
    (kind = "Listener" /\ stopAt = "never")
        => /\ res # "Ok"
           /\ \A i \in 1..Len(joinRets) : joinRets[i] # "Ok"

\* a worker that ended and was joined with no stop ever requested
C18_Witness ==
    /\ kind = "Listener"
    /\ stopAt = "never"
    /\ pc = "done"
    /\ res = "ConnectionLost"
    /\ joinRets = << "ConnectionLost" >>

\* the worker is about to handle a read that timed out, in Parse
AtTimeoutInParse == pc = "handle" /\ state = "Parse" /\ ret = "timeout"

\* C19: once the callsign is sent and the worker is in Parse, timeouts do
\* not end it, however many: a timeout handled in Parse leaves the worker
\* in Parse with no result, back at the read; no step of the loop in Parse
\* changes timeout_counter; and AuthenticationError is only ever produced
\* by a step taken in Auth.
C19_NoBudgetInParse ==
    [][/\ (AtTimeoutInParse /\ pc' # pc)
            => (pc' = "read" /\ state' = "Parse" /\ res' = "none")
       /\ (state = "Parse" /\ pc \in LoopPcs)
            => timeout_counter' = timeout_counter
       /\ (res' = "AuthenticationError" /\ res # "AuthenticationError")
            => (state = "Auth" /\ pc = "handle")]_vars

\* a timeout was handled in Parse, after timeouts that used part of the
\* budget while authenticating
C19_Witness ==
    /\ state = "Parse"
    /\ pc = "read"
    /\ ret = "timeout"
    /\ res = "none"
    /\ timeouts > 0
    /\ timeout_counter = Budget - timeouts

\* the buffer begins with a prompt line, which the peer sends before the
\* login only
HeldFromAuth ==
    \E i \in 1..Len(AUTH_TOKEN) : starts_with(line, AUTH_TOKEN[i] \o << LF >>)

\* C20: no spot is delivered before the authentication has completed: when
\* the sink holds a spot the callsign has been written and the worker has
\* reached Parse, no step taken in Auth delivers, and no line received while
\* in Auth is in a string handed to the parser.
C20_NothingBeforeLogin ==
    /\ delivered # << >> => (written # << >> /\ state = "Parse")
    /\ (state = "Auth" /\ pc \in LoopPcs) => delivered = << >>
    /\ AtParse => ~HeldFromAuth

----------------------------------------------------------------------------
(* Text *)

BeginsWithPrompt(buf) ==
    \E i \in 1..Len(AUTH_TOKEN) :
        Len(buf) >= Len(AUTH_TOKEN[i])
            /\ \A k \in 1..Len(AUTH_TOKEN[i]) : buf[k] = AUTH_TOKEN[i][k]

EndsWithPrompt(buf) ==
    \E i \in 1..Len(AUTH_TOKEN) : ends_with(buf, AUTH_TOKEN[i])

\* the step wrote the callsign, or tried to and the write failed
CallsignSent ==
    written' # written \/ res' \in { "UnknownError", "ConnectionLost" }

C22_CleanLine ==
    [][(AtParse /\ pc' # pc) =>
        LET clean == clean_line(line)
        IN  /\ clean # << >> =>
                  /\ ~is_whitespace(clean[Len(clean)])
                  /\ clean[Len(clean)] # BEL
            /\ Len(clean) <= Len(line)
            /\ \A k \in 1..Len(clean) : clean[k] = line[k]
            /\ parse_ok(clean) => delivered' = Append(delivered, clean)]_vars

====
